---- MODULE Spec2Model ----
(***************************************************************************)
(* Model of the JSON Schema flattener of ooapi/schema_visualizer.py:       *)
(* JSONSchemaVisualizer with its document loader (load_schema), reference  *)
(* resolver (resolve_reference), cardinality and type-string derivers and  *)
(* the recursive walker (parse_schema), run step by step on an explicit    *)
(* call stack.                                                             *)
(*                                                                         *)
(* Python values are tagged records: a dict is an ordered sequence of      *)
(* <<key, value>> pairs, a str is a sequence of atoms (indivisible pieces  *)
(* of text; "/" and "#" are always atoms of their own, so that split and   *)
(* startswith are computed on the sequence), an int and a list are         *)
(* themselves.  Display strings built by f-strings are TLA+ strings.       *)
(***************************************************************************)
EXTENDS Integers, Sequences, FiniteSets, TLC

VARIABLES
    scn,            \* the environment of this behaviour: cwd, base_path, root files
    fs,             \* the file system: resolved absolute path -> file content
    pending,        \* files the environment may still write during the run
    resolved_refs,  \* JSONSchemaVisualizer.resolved_refs
    schema_cache,   \* JSONSchemaVisualizer.schema_cache
    properties,     \* JSONSchemaVisualizer.properties
    stack,          \* call stack of parse_schema / resolve_reference frames
    ret,            \* what resolve_reference has just returned to its call site
    status,         \* "idle", "running", "done" or "error"
    err,            \* the exception that left visualize_schema, "" if none
    loads,          \* history: the load_schema calls of the current run
    calls,          \* number of visualize_schema calls made on the instance
    probe,          \* input and output of a derivation applied on its own
    sched,          \* two runs in turn: which one is current, the other one
    pipeline        \* the indexing loop of pipeline/poc-framing.py

vars == <<scn, fs, pending, resolved_refs, schema_cache, properties, stack,
          ret, status, err, loads, calls, probe, sched, pipeline>>

-----------------------------------------------------------------------------
(* Bounds of the model *)

\* Python's recursion limit, counted in parse_schema/resolve_reference frames
RecursionLimit == 7
\* visualize_schema calls made on one instance
MaxCalls == 2
\* largest minItems / maxItems drawn for the cardinality derivation
MaxItems == 2
\* largest number of documents the indexing loop is given
MaxDocs == 2

-----------------------------------------------------------------------------
(* Python values *)

D(kv)  == [tag |-> "dict", kv |-> kv]
S(at)  == [tag |-> "str", at |-> at]
N(n)   == [tag |-> "int", n |-> n]
L(el)  == [tag |-> "list", el |-> el]
B(b)   == [tag |-> "bool", b |-> b]

Str(a) == S(<<a>>)
EmptyDict == D(<<>>)

IsDict(v) == v.tag = "dict"
IsStr(v)  == v.tag = "str"
IsList(v) == v.tag = "list"

\* key in d
Has(d, k) == \E i \in 1..Len(d.kv) : d.kv[i][1] = k
\* d[key]
Get(d, k) == d.kv[CHOOSE i \in 1..Len(d.kv) : d.kv[i][1] = k][2]
\* d.get(key, default)
GetOr(d, k, default) == IF Has(d, k) THEN Get(d, k) ELSE default

\* the text of a str: its atoms concatenated
RECURSIVE Show(_)
Show(at) == IF at = <<>> THEN "" ELSE at[1] \o Show(Tail(at))

\* str(v) for the values an enum lists
PyStr(v) == IF v.tag = "int" THEN ToString(v.n) ELSE Show(v.at)

-----------------------------------------------------------------------------
(* str operations on atom sequences *)

\* at.split("/")
RECURSIVE SplitSlash(_, _)
SplitSlash(at, cur) ==
    IF at = <<>> THEN <<cur>>
    ELSE IF at[1] = "/" THEN <<cur>> \o SplitSlash(Tail(at), <<>>)
    ELSE SplitSlash(Tail(at), Append(cur, at[1]))

\* index of the first "#/" in at, 0 if there is none
HashSlash(at) ==
    IF \E i \in 1..(Len(at) - 1) : at[i] = "#" /\ at[i + 1] = "/"
    THEN CHOOSE i \in 1..(Len(at) - 1) :
            /\ at[i] = "#" /\ at[i + 1] = "/"
            /\ \A j \in 1..(i - 1) : ~(at[j] = "#" /\ at[j + 1] = "/")
    ELSE 0

\* the atoms whose text begins with "http"
HttpAtoms == {"http:", "https:", "httpd"}

\* startswith as it would be if only "https" were tested for
StartsWithHttps(at) == Len(at) >= 1 /\ at[1] = "https:"

StartsWithHashSlash(at) == Len(at) >= 2 /\ at[1] = "#" /\ at[2] = "/"
StartsWithHttp(at) == Len(at) >= 1 /\ at[1] \in HttpAtoms

-----------------------------------------------------------------------------
(* pathlib.Path: [abs, parts], a part being the atoms of one component *)

RECURSIVE Components(_)
Components(ps) ==
    IF ps = <<>> THEN <<>>
    ELSE IF ps[1] = <<>> \/ ps[1] = <<".">> THEN Components(Tail(ps))
    ELSE <<ps[1]>> \o Components(Tail(ps))

\* Path(text)
PathOf(at) == [abs |-> (Len(at) >= 1 /\ at[1] = "/"),
               parts |-> Components(SplitSlash(at, <<>>))]
\* p.parent
Parent(p) == [abs |-> p.abs,
              parts |-> IF p.parts = <<>> THEN <<>>
                        ELSE SubSeq(p.parts, 1, Len(p.parts) - 1)]
\* p / q
Join(p, q) == IF q.abs THEN q ELSE [abs |-> p.abs, parts |-> p.parts \o q.parts]

\* ".." components folded away
RECURSIVE Normal(_, _)
Normal(ps, acc) ==
    IF ps = <<>> THEN acc
    ELSE IF ps[1] = <<"..">>
         THEN Normal(Tail(ps), IF acc = <<>> THEN <<>>
                               ELSE SubSeq(acc, 1, Len(acc) - 1))
         ELSE Normal(Tail(ps), Append(acc, ps[1]))

\* str(p.resolve()): the absolute, normalised components
Resolve(p, cwd) == Normal(IF p.abs THEN p.parts ELSE cwd \o p.parts, <<>>)

\* p.suffix.lower() in ['.yaml', '.yml']
YamlSuffixes == {".yaml", ".yml", ".YAML", ".YML", ".Yaml"}
IsYamlPath(p) ==
    /\ p.parts # <<>>
    /\ LET name == p.parts[Len(p.parts)]
       IN  Len(name) >= 2 /\ name[Len(name)] \in YamlSuffixes

-----------------------------------------------------------------------------
(* The placeholder fragments of resolve_reference *)

Placeholder(type, note, at) ==
    D(<< <<"type", Str(type)>>, <<"description", S(<<note>> \o at)>> >>)

CyclePlaceholder(at)    == Placeholder("object", "Circular reference to ", at)
UnknownPlaceholder(at)  == Placeholder("unknown", "Unresolved reference: ", at)
ExternalPlaceholder(at) == Placeholder("external", "External reference: ", at)

-----------------------------------------------------------------------------
(* load_schema *)

\* what yaml.safe_load / json.load make of a file: a file holds text of one
\* syntax, JSON text being YAML text as well
Parses(yaml, content) ==
    IF yaml THEN content.syntax \in {"yaml", "json"} ELSE content.syntax = "json"

\* load_schema as it would be if a parsed document were not put in the cache
LoadMissUncached(path, key, cache, fsys) ==
    IF key \notin DOMAIN fsys
    THEN [val |-> EmptyDict, cache |-> cache, key |-> key, how |-> "missing"]
    ELSE IF Parses(IsYamlPath(path), fsys[key])
    THEN [val |-> fsys[key].doc, cache |-> cache, key |-> key, how |-> "parsed"]
    ELSE [val |-> EmptyDict, cache |-> cache, key |-> key, how |-> "error"]

\* load_schema as it would be if a failed load returned None
LoadMissNone(path, key, cache, fsys) ==
    IF key \notin DOMAIN fsys
    THEN [val |-> [tag |-> "none"], cache |-> cache, key |-> key,
          how |-> "missing"]
    ELSE IF Parses(IsYamlPath(path), fsys[key])
    THEN [val |-> fsys[key].doc, cache |-> (key :> fsys[key].doc) @@ cache,
          key |-> key, how |-> "parsed"]
    ELSE [val |-> [tag |-> "none"], cache |-> cache, key |-> key,
          how |-> "error"]

\* load_schema as it would be if the empty document of a failed load were
\* put in the cache
LoadMissCached(path, key, cache, fsys) ==
    IF key \notin DOMAIN fsys
    THEN [val |-> EmptyDict, cache |-> (key :> EmptyDict) @@ cache, key |-> key,
          how |-> "missing"]
    ELSE IF Parses(IsYamlPath(path), fsys[key])
    THEN [val |-> fsys[key].doc, cache |-> (key :> fsys[key].doc) @@ cache,
          key |-> key, how |-> "parsed"]
    ELSE [val |-> EmptyDict, cache |-> (key :> EmptyDict) @@ cache, key |-> key,
          how |-> "error"]

\* the outcome of one load attempt that found no cache entry
LoadMiss(path, key, cache, fsys) ==
    IF key \notin DOMAIN fsys
    THEN [val |-> EmptyDict, cache |-> cache, key |-> key, how |-> "missing"]
    ELSE IF Parses(IsYamlPath(path), fsys[key])
    THEN [val |-> fsys[key].doc, cache |-> (key :> fsys[key].doc) @@ cache,
          key |-> key, how |-> "parsed"]
    ELSE [val |-> EmptyDict, cache |-> cache, key |-> key, how |-> "error"]

\* load_schema(file_path) on an instance with this base_path and cache
load_schema(file_path, base, cwd, cache, fsys) ==
    LET path == IF file_path.abs THEN file_path ELSE Join(base, file_path)
        key  == Resolve(path, cwd)
    IN  IF key \in DOMAIN cache
        THEN [val |-> cache[key], cache |-> cache, key |-> key, how |-> "hit"]
        ELSE LoadMiss(path, key, cache, fsys)

-----------------------------------------------------------------------------
(* resolve_reference *)

\* the loop "for part in parts" over result
RECURSIVE Walk(_, _, _)
Walk(result, parts, at) ==
    IF parts = <<>> THEN [found |-> TRUE, val |-> result]
    ELSE IF IsDict(result) /\ Has(result, Show(parts[1]))
         THEN Walk(Get(result, Show(parts[1])), Tail(parts), at)
         ELSE [found |-> FALSE, val |-> UnknownPlaceholder(at)]

NoLoad == [key |-> <<>>, how |-> "none"]

\* the try block of resolve_reference for a str token
ResolveBranches(at, current_schema, current_path, base, cwd, cache, fsys) ==
    IF StartsWithHashSlash(at)
    THEN LET w == Walk(current_schema,
                       SplitSlash(SubSeq(at, 3, Len(at)), <<>>), at)
         IN  [raised |-> FALSE, val |-> w.val, cache |-> cache, load |-> NoLoad,
              how |-> IF w.found THEN "internal" ELSE "unknown"]
    ELSE IF StartsWithHttp(at)
    THEN [raised |-> FALSE, val |-> ExternalPlaceholder(at), cache |-> cache,
          load |-> NoLoad, how |-> "external"]
    ELSE LET h == HashSlash(at)
         IN  IF h > 0
             THEN LET file_part == SubSeq(at, 1, h - 1)
                      fragment  == SubSeq(at, h + 2, Len(at))
                      ld == load_schema(
                                Join(Parent(current_path), PathOf(file_part)),
                                base, cwd, cache, fsys)
                      w  == Walk(ld.val, SplitSlash(fragment, <<>>), at)
                  IN  [raised |-> FALSE, val |-> w.val, cache |-> ld.cache,
                       load |-> [key |-> ld.key, how |-> ld.how],
                       how |-> IF w.found THEN "fragment" ELSE "unknown"]
             ELSE LET ld == load_schema(Join(Parent(current_path), PathOf(at)),
                                        base, cwd, cache, fsys)
                  IN  [raised |-> FALSE, val |-> ld.val, cache |-> ld.cache,
                       load |-> [key |-> ld.key, how |-> ld.how],
                       how |-> "file"]

\* the try block: a token that is no str has no startswith
ResolveTry(ref, current_schema, current_path, base, cwd, cache, fsys) ==
    IF ~IsStr(ref)
    THEN [raised |-> TRUE, val |-> EmptyDict, cache |-> cache, load |-> NoLoad,
          how |-> "raised"]
    ELSE ResolveBranches(ref.at, current_schema, current_path, base, cwd,
                         cache, fsys)

\* resolve_reference as it would be without its finally block
ResolveFinallyKeeps(refs, ref) == refs

\* the finally block
ResolveFinally(refs, ref) == refs \ {ref}

-----------------------------------------------------------------------------
(* get_cardinality *)

\* get_cardinality as it would be without its array branch
get_cardinality_flat(schema, parent_required, prop_name) ==
    IF \E i \in 1..Len(parent_required) :
          IsStr(parent_required[i]) /\ Show(parent_required[i].at) = prop_name
    THEN "1..1" ELSE "0..1"

InRequired(prop_name, parent_required) ==
    \E i \in 1..Len(parent_required) :
        IsStr(parent_required[i]) /\ Show(parent_required[i].at) = prop_name

IsType(schema, t) == Has(schema, "type") /\ Get(schema, "type") = Str(t)

get_cardinality(schema, parent_required, prop_name) ==
    LET is_required == InRequired(prop_name, parent_required)
        min_items == GetOr(schema, "minItems", N(0)).n
        has_max == Has(schema, "maxItems")
        max_text == ToString(Get(schema, "maxItems").n)
    IN  IF IsType(schema, "array")
        THEN IF is_required
             THEN IF min_items > 0
                  THEN IF has_max
                       THEN ToString(min_items) \o ".." \o max_text
                       ELSE ToString(min_items) \o "..*"
                  ELSE IF has_max THEN "0.." \o max_text ELSE "0..*"
             ELSE "0..1 (array)"
        ELSE IF is_required THEN "1..1" ELSE "0..1"

-----------------------------------------------------------------------------
(* get_type_string *)

\* sep.join(map(str, values))
RECURSIVE JoinStr(_, _)
JoinStr(el, sep) ==
    IF el = <<>> THEN ""
    ELSE IF Len(el) = 1 THEN PyStr(el[1])
    ELSE PyStr(el[1]) \o sep \o JoinStr(Tail(el), sep)

\* the enum branch as it would be if the values were never listed
TypeOfEnumCount(enum_values) ==
    "enum(" \o ToString(Len(enum_values)) \o " values)"

TypeOfEnum(enum_values) ==
    IF Len(enum_values) <= 3
    THEN "enum(" \o JoinStr(enum_values, ", ") \o ")"
    ELSE "enum(" \o ToString(Len(enum_values)) \o " values)"

TypeOfCombinator(schema) ==
    IF Has(schema, "oneOf") THEN "oneOf"
    ELSE IF Has(schema, "anyOf") THEN "anyOf"
    ELSE "allOf"

\* get_type_string as it would be without its '$ref' branch
TypeOfRefUnknown(schema) == "unknown"

TypeOfRef(schema) == "ref(" \o PyStr(Get(schema, "$ref")) \o ")"

HasCombinator(schema) ==
    Has(schema, "oneOf") \/ Has(schema, "anyOf") \/ Has(schema, "allOf")

RECURSIVE get_type_string(_)
get_type_string(schema) ==
    IF Has(schema, "type")
    THEN LET schema_type == Get(schema, "type")
         IN  IF IsList(schema_type) THEN JoinStr(schema_type.el, " | ")
             ELSE IF schema_type = Str("array")
             THEN LET items == GetOr(schema, "items", EmptyDict)
                  IN  "array<" \o (IF items # EmptyDict
                                   THEN get_type_string(items) ELSE "any")
                               \o ">"
             ELSE IF schema_type = Str("object") THEN "object"
             ELSE Show(schema_type.at)
    ELSE IF Has(schema, "enum") THEN TypeOfEnum(Get(schema, "enum").el)
    ELSE IF HasCombinator(schema) THEN TypeOfCombinator(schema)
    ELSE IF Has(schema, "$ref") THEN TypeOfRef(schema)
    ELSE "unknown"

-----------------------------------------------------------------------------
(* Schema documents and file systems the runs are made on *)

Prim(t)     == D(<< <<"type", Str(t)>> >>)
Obj(props)  == D(<< <<"type", Str("object")>>, <<"properties", D(props)>> >>)
Arr(items)  == D(<< <<"type", Str("array")>>, <<"items", items>> >>)
Ref(at)     == D(<< <<"$ref", S(at)>> >>)

Yaml(doc)   == [syntax |-> "yaml", doc |-> doc]
Json(doc)   == [syntax |-> "json", doc |-> doc]
Garbage     == [syntax |-> "garbage", doc |-> EmptyDict]

Cwd == << <<"w">> >>
InD1(name) == Cwd \o << <<"d1">>, name >>
InD2(name) == Cwd \o << <<"d2">>, name >>
BaseD1 == [abs |-> FALSE, parts |-> << <<"d1">> >>]

NoFiles == [k \in {} |-> Garbage]

\* the example document of the specification
DocExample ==
    D(<< <<"type", Str("object")>>,
         <<"required", L(<<Str("id")>>)>>,
         <<"properties", D(<<
             <<"id", Prim("string")>>,
             <<"tags", D(<< <<"type", Str("array")>>,
                            <<"items", Prim("string")>>,
                            <<"minItems", N(1)>> >>)>> >>)>> >>)

\* nested objects and an array of objects, no reference and no combinator
DocNested ==
    Obj(<< <<"a", Obj(<< <<"b", Prim("string")>>,
                         <<"c", Obj(<< <<"d", Prim("integer")>> >>)>> >>)>>,
           <<"list", Arr(Obj(<< <<"e", Prim("integer")>> >>))>>,
           <<"z", D(<< <<"type", Str("string")>>,
                       <<"description", S(<<"last">>)>> >>)>> >>)

\* an array property whose items are arrays of objects
DocGrid ==
    Obj(<< <<"grid", Arr(Arr(Obj(<< <<"cell", Prim("string")>> >>)))>>,
           <<"z", Prim("string")>> >>)

\* a root-level array of objects
DocRootArray == Arr(Obj(<< <<"n", Prim("string")>> >>))

DefA == Obj(<< <<"x", Prim("string")>> >>)

\* internal references from a property, from array items and to a missing
\* key, and one to a key that only the referring fragment has
DocInternal ==
    D(<< <<"type", Str("object")>>,
         <<"properties", D(<<
             <<"a", Ref(<<"#", "/", "definitions", "/", "A">>)>>,
             <<"l", Arr(Ref(<<"#", "/", "definitions", "/", "A">>))>>,
             <<"m", Ref(<<"#", "/", "definitions", "/", "Zed">>)>>,
             <<"f", D(<< <<"$ref", S(<<"#", "/", "own">>)>>,
                         <<"own", Prim("string")>> >>)>>,
             <<"t", D(<< <<"type", Str("string")>>,
                         <<"$ref", S(<<"#", "/", "nowhere">>)>> >>)>> >>)>>,
         <<"definitions", D(<< <<"A", DefA>> >>)>> >>)

\* an internal reference at the root of the document
DocRootRef ==
    D(<< <<"$ref", S(<<"#", "/", "definitions", "/", "A">>)>>,
         <<"definitions", D(<< <<"A", DefA>> >>)>> >>)

\* a document that refers to itself as a whole file
DocLoop == Obj(<< <<"next", Ref(<<"Loop", ".yaml">>)>> >>)

\* two documents that refer to each other
DocPing == Obj(<< <<"pong", Ref(<<"Pong", ".yaml", "#", "/", "defs", "/", "P">>)>> >>)
DocPong == D(<< <<"defs", D(<< <<"P", Ref(<<"Ping", ".yaml">>)>> >>)>> >>)

\* file references across directories
DocCrossA == Obj(<< <<"b", Ref(<<"..", "/", "d2", "/", "B", ".yaml">>)>> >>)
DocCrossB ==
    Obj(<< <<"c", Ref(<<"C", ".yaml">>)>>,
           <<"k", Ref(<<"C", ".yaml", "#", "/", "defs", "/", "K">>)>> >>)
DocCrossC ==
    D(<< <<"type", Str("object")>>,
         <<"properties", D(<< <<"deep", Prim("string")>> >>)>>,
         <<"defs", D(<< <<"K", Obj(<< <<"kk", Prim("integer")>> >>)>> >>)>> >>)
DocOtherC == Obj(<< <<"other", Prim("string")>> >>)

\* sibling references to the same files, to missing and unparsable files and
\* to a remote document
DocDefs == D(<< <<"defs", D(<< <<"X", DefA>> >>)>> >>)
DocSiblings ==
    Obj(<< <<"p", Ref(<<"Defs", ".yaml", "#", "/", "defs", "/", "X">>)>>,
           <<"q", Ref(<<"Defs", ".yaml", "#", "/", "defs", "/", "X">>)>>,
           <<"o", Ref(<<"Defs", ".yaml", "#", "/", "defs", "/", "Nope">>)>>,
           <<"r", Ref(<<"http:", "/", "/", "host", "/", "s">>)>>,
           <<"s", Prim("string")>> >>)
DocFailing ==
    Obj(<< <<"m", Ref(<<"Gone", ".yaml">>)>>,
           <<"n", Ref(<<"Gone", ".yaml", "#", "/", "defs", "/", "X">>)>>,
           <<"u", Ref(<<"Bad", ".json">>)>>,
           <<"v", Ref(<<"Bad", ".json", "#", "/", "defs", "/", "X">>)>>,
           <<"w", Ref(<<".", "/", "Defs", ".yaml">>)>>,
           <<"s", Prim("string")>> >>)

\* references that are no str, and a reference to a fragment that is no dict
DocIntRef == Obj(<< <<"i", D(<< <<"$ref", N(5)>> >>)>>, <<"s", Prim("string")>> >>)
DocListRef == D(<< <<"$ref", L(<<Str("A")>>)>> >>)
DocStrTarget ==
    D(<< <<"$ref", S(<<"#", "/", "title">>)>>, <<"title", Str("T")>> >>)

\* a property whose schema is the boolean schema `true`
DocBoolProp == Obj(<< <<"a", B(TRUE)>>, <<"s", Prim("string")>> >>)

\* the combinator example of the specification
DocOneOf == D(<< <<"oneOf", L(<<Prim("string"), Prim("integer")>>)>> >>)

\* combinators with object-shaped branches: at the root, and in an object
\* property
DocAnyOf ==
    D(<< <<"anyOf", L(<<Obj(<< <<"a", Prim("string")>>, <<"b", Prim("integer")>> >>),
                        Obj(<< <<"a", Prim("integer")>> >>),
                        Prim("string")>>)>> >>)
DocAllOf ==
    D(<< <<"allOf", L(<<Obj(<< <<"a", Prim("string")>> >>),
                        Obj(<< <<"a", Prim("string")>>, <<"c", Prim("string")>> >>)>>)>> >>)
DocNestedXor ==
    Obj(<< <<"p", D(<< <<"type", Str("object")>>,
                       <<"oneOf", L(<<Obj(<< <<"a", Prim("string")>> >>),
                                      Obj(<< <<"a", Prim("integer")>> >>)>>)>> >>)>>,
           <<"z", Prim("string")>> >>)

\* fragments with more than one construct: a reference beside properties and
\* a combinator, a combinator beside properties, and all three combinators
DocRefAndProps ==
    D(<< <<"$ref", S(<<"#", "/", "definitions", "/", "A">>)>>,
         <<"type", Str("object")>>,
         <<"properties", D(<< <<"own", Prim("string")>> >>)>>,
         <<"allOf", L(<<Obj(<< <<"inner", Prim("string")>> >>)>>)>>,
         <<"definitions", D(<< <<"A", DefA>> >>)>> >>)
DocCombAndProps ==
    D(<< <<"type", Str("object")>>,
         <<"properties", D(<< <<"own", Prim("string")>> >>)>>,
         <<"anyOf", L(<<Obj(<< <<"a", Prim("string")>> >>)>>)>> >>)
DocSeveral ==
    D(<< <<"oneOf", L(<<Obj(<< <<"o", Prim("string")>> >>)>>)>>,
         <<"anyOf", L(<<Obj(<< <<"n", Prim("string")>> >>)>>)>>,
         <<"allOf", L(<<Obj(<< <<"l", Prim("string")>> >>)>>)>> >>)

\* properties that have a combinator and nothing else
DocOnlyComb ==
    Obj(<< <<"c", D(<< <<"anyOf", L(<<Obj(<< <<"inner", Prim("string")>> >>)>>)>> >>)>>,
           <<"d", D(<< <<"oneOf", L(<<Prim("string")>>)>>,
                       <<"allOf", L(<<Prim("string")>>)>> >>)>>,
           <<"z", Prim("string")>> >>)
\* an array of references: as the root fragment, and as a property
DocBareArrayRef == Arr(Ref(<<"Defs", ".yaml", "#", "/", "defs", "/", "X">>))
DocArrayPropRef ==
    Obj(<< <<"k", Arr(Ref(<<"Defs", ".yaml", "#", "/", "defs", "/", "X">>))>> >>)

\* a combinator with a branch that is an array of objects
DocAnyOfArray ==
    D(<< <<"anyOf", L(<<Arr(Obj(<< <<"n", Prim("string")>> >>)),
                        Prim("string"), Arr(Prim("string"))>>)>> >>)

Scenario(roots, fsys, pend) ==
    [cwd |-> Cwd, base |-> BaseD1, roots |-> roots, fs |-> fsys, pending |-> pend]

Root == <<"A", ".yaml">>
One(doc) == Scenario({Root}, InD1(Root) :> Yaml(doc), {})

Scenarios == <<
    One(DocExample),
    One(DocNested),
    One(DocGrid),
    One(DocRootArray),
    One(DocInternal),
    One(DocRootRef),
    Scenario({<<"Loop", ".yaml">>}, InD1(<<"Loop", ".yaml">>) :> Yaml(DocLoop), {}),
    Scenario({<<"Ping", ".yaml">>},
             (InD1(<<"Ping", ".yaml">>) :> Yaml(DocPing))
                 @@ (InD1(<<"Pong", ".yaml">>) :> Yaml(DocPong)), {}),
    Scenario({Root},
             (InD1(Root) :> Yaml(DocCrossA))
                 @@ (InD2(<<"B", ".yaml">>) :> Yaml(DocCrossB))
                 @@ (InD2(<<"C", ".yaml">>) :> Yaml(DocCrossC)), {}),
    Scenario({Root},
             (InD1(Root) :> Yaml(DocCrossA))
                 @@ (InD2(<<"B", ".yaml">>) :> Yaml(DocCrossB))
                 @@ (InD2(<<"C", ".yaml">>) :> Yaml(DocCrossC))
                 @@ (InD1(<<"C", ".yaml">>) :> Yaml(DocOtherC)), {}),
    Scenario({Root, <<"B", ".json">>},
             (InD1(Root) :> Yaml(DocSiblings))
                 @@ (InD1(<<"B", ".json">>) :> Json(DocExample))
                 @@ (InD1(<<"Defs", ".yaml">>) :> Json(DocDefs)), {}),
    Scenario({Root},
             (InD1(Root) :> Yaml(DocFailing))
                 @@ (InD1(<<"Bad", ".json">>) :> Yaml(DocDefs))
                 @@ (InD1(<<"Defs", ".yaml">>) :> Yaml(DocDefs)),
             {[key |-> InD1(<<"Gone", ".yaml">>), content |-> Yaml(DocDefs)]}),
    One(DocIntRef),
    One(DocListRef),
    One(DocStrTarget),
    One(DocOneOf),
    Scenario({<<"Nope", ".yaml">>}, NoFiles, {}),
    One(DocAnyOf),
    One(DocAllOf),
    One(DocNestedXor),
    One(DocAnyOfArray),
    One(DocBoolProp),
    One(DocRefAndProps),
    One(DocCombAndProps),
    One(DocSeveral),
    One(DocOnlyComb),
    Scenario({Root, <<"B", ".yaml">>},
             (InD1(Root) :> Yaml(DocBareArrayRef))
                 @@ (InD1(<<"B", ".yaml">>) :> Yaml(DocArrayPropRef))
                 @@ (InD1(<<"Defs", ".yaml">>) :> Yaml(DocDefs)), {})
>>

-----------------------------------------------------------------------------
(* State of a run *)

EmptyCache == [k \in {} |-> EmptyDict]
NoRef == [tag |-> "none"]
NoRet == [how |-> "none", val |-> EmptyDict, ref |-> NoRef, org |-> <<>>,
          site |-> "", pre |-> {}, post |-> {}, active |-> {}, load |-> NoLoad]
NoProbe == [schema |-> EmptyDict, required |-> <<>>, name |-> "", out |-> ""]

\* a run that has not called visualize_schema yet, on an instance as __init__
\* leaves it; as history, the tables its calls returned (outs) and whether
\* the other run was given a turn during its current call (cut)
IdleRun ==
    [resolved_refs |-> {}, schema_cache |-> EmptyCache, properties |-> <<>>,
     calls |-> 0, stack |-> <<>>, ret |-> NoRet, status |-> "idle", err |-> "",
     loads |-> <<>>, cut |-> FALSE, outs |-> <<>>]

\* mode: "single" for one run, "own" for two runs on an instance each,
\* "shared" for two runs on one instance
NoSched == [mode |-> "single", me |-> 1, cut |-> FALSE, outs |-> <<>>,
            other |-> IdleRun]

\* the indexing loop is not run
NoPipeline == [pc |-> "off"]

\* a parse_schema call: its arguments, where it stands (pc, i, key), and as
\* history the document its fragment belongs to (org) and the reference it
\* was reached through (via)
ParseFrame(schema, path, req, file, org, via) ==
    [fn |-> "parse", schema |-> schema, path |-> path, req |-> req,
     file |-> file, pc |-> "start", i |-> 1, key |-> "", org |-> org,
     via |-> via]

\* a resolve_reference call: its arguments, where it stands, and as history
\* the call site and the guard set it found
ResolveFrame(ref, cur, file, org, site, pre) ==
    [fn |-> "resolve", ref |-> ref, cur |-> cur, file |-> file,
     pc |-> "enter", org |-> org, site |-> site, pre |-> pre]

Top == stack[Len(stack)]
Pop(stk) == SubSeq(stk, 1, Len(stk) - 1)
SetTop(stk, f) == [stk EXCEPT ![Len(stk)] = f]

\* the reference tokens whose targets are being walked by the calls on the stack
ActiveRefs(stk) ==
    {stk[n].via : n \in {m \in 1..Len(stk) : stk[m].fn = "parse"}} \ {NoRef}

InParse(pc) == status = "running" /\ stack # <<>> /\ Top.fn = "parse" /\ Top.pc = pc
InResolve(pc) == status = "running" /\ stack # <<>> /\ Top.fn = "resolve" /\ Top.pc = pc

\* the test for an object as it would be if a combinator made one
ObjectLikeOrCombined(schema) ==
    IsType(schema, "object") \/ Has(schema, "properties") \/ HasCombinator(schema)

ObjectLike(schema) == IsType(schema, "object") \/ Has(schema, "properties")

\* the combinator key as it would be chosen in the order of get_type_string
CombineKeyOneOfFirst(schema) ==
    IF Has(schema, "oneOf") THEN "oneOf"
    ELSE IF Has(schema, "anyOf") THEN "anyOf"
    ELSE IF Has(schema, "allOf") THEN "allOf"
    ELSE ""

\* the first of allOf, anyOf, oneOf that the fragment has, "" if none
CombineKey(schema) ==
    IF Has(schema, "allOf") THEN "allOf"
    ELSE IF Has(schema, "anyOf") THEN "anyOf"
    ELSE IF Has(schema, "oneOf") THEN "oneOf"
    ELSE ""

\* sub_path as it would be if anyOf branches carried no marker
SubPathUnmarked(path, combine_key) ==
    IF combine_key = "oneOf" THEN path \o "[xor]/" ELSE path

SubPath(path, combine_key) ==
    IF combine_key = "allOf" THEN path
    ELSE IF combine_key = "anyOf" THEN path \o "[or]/"
    ELSE path \o "[xor]/"

\* the text of a token in a placeholder's description
TokenAtoms(ref) == IF IsStr(ref) THEN ref.at ELSE <<ToString(ref.n)>>

\* the file part of a file reference
FilePart(at) == IF HashSlash(at) > 0 THEN SubSeq(at, 1, HashSlash(at) - 1) ELSE at

\* an exception leaves visualize_schema
Raise(e) == status' = "error" /\ err' = e /\ stack' = <<>>

\* a call made from the top frame, left as `caller`: one more frame, or
\* RecursionError
Invoke(caller, frame) ==
    IF Len(stack) >= RecursionLimit
    THEN Raise("RecursionError")
    ELSE stack' = Append(SetTop(stack, caller), frame) /\ UNCHANGED <<status, err>>

SchemaProperty(path, prop_name, prop_schema, required) ==
    [path |-> IF path = "" THEN "/" ELSE path,
     name |-> prop_name,
     data_type |-> get_type_string(prop_schema),
     cardinality |-> get_cardinality(prop_schema, required, prop_name),
     description |-> PyStr(GetOr(prop_schema, "description", S(<<>>)))]

Init ==
    /\ \E n \in 1..Len(Scenarios) : scn = Scenarios[n]
    /\ fs = scn.fs
    /\ pending = scn.pending
    /\ resolved_refs = {}
    /\ schema_cache = EmptyCache
    /\ properties = <<>>
    /\ stack = <<>>
    /\ ret = NoRet
    /\ status = "idle"
    /\ err = ""
    /\ loads = <<>>
    /\ calls = 0
    /\ probe = NoProbe
    /\ sched = NoSched
    /\ pipeline = NoPipeline

-----------------------------------------------------------------------------
(* visualize_schema *)

\* "self.properties = []" as it would be if the list were kept
KeptRecords == properties

\* self.properties = []
FreshRecords == <<>>

\* the call: the three fields are reset, the root document is loaded and
\* parse_schema is called on it
visualize_schema(schema_file) ==
    /\ status \in {"idle", "done", "error"}
    /\ calls < MaxCalls
    /\ LET ld == load_schema(PathOf(schema_file), scn.base, scn.cwd, EmptyCache, fs)
       IN  /\ schema_cache' = ld.cache
           /\ loads' = <<[key |-> ld.key, how |-> ld.how, org |-> <<>>,
                          rel |-> schema_file]>>
           /\ stack' = <<ParseFrame(ld.val, "", <<>>, PathOf(schema_file),
                                    ld.key, NoRef)>>
    /\ properties' = FreshRecords
    /\ resolved_refs' = {}
    /\ status' = "running"
    /\ err' = ""
    /\ ret' = NoRet
    /\ calls' = calls + 1
    /\ sched' = [sched EXCEPT !.cut = FALSE]
    /\ UNCHANGED <<scn, fs, pending, probe, pipeline>>

Visualize == \E f \in scn.roots : visualize_schema(f)

\* parse_schema has returned: the records become the table
VisualizeReturn ==
    /\ status = "running"
    /\ stack = <<>>
    /\ status' = "done"
    /\ sched' = [sched EXCEPT
                   !.outs = Append(sched.outs,
                                   [root |-> loads[1].rel, table |-> properties,
                                    late |-> pending # scn.pending])]
    /\ UNCHANGED <<scn, fs, pending, resolved_refs, schema_cache, properties,
                   stack, ret, err, loads, calls, probe, pipeline>>

-----------------------------------------------------------------------------
(* parse_schema *)

\* a fragment that is no dict has no get
ParseRaise ==
    /\ InParse("start")
    /\ ~IsDict(Top.schema)
    /\ Raise("AttributeError")
    /\ UNCHANGED <<scn, fs, pending, resolved_refs, schema_cache, properties,
                   ret, loads, calls, probe, sched, pipeline>>

\* '$ref' in schema: resolve_reference(schema['$ref'], schema, current_file)
ParseRef ==
    /\ InParse("start")
    /\ IsDict(Top.schema)
    /\ Has(Top.schema, "$ref")
    /\ Invoke([Top EXCEPT !.pc = "ref_ret"],
              ResolveFrame(Get(Top.schema, "$ref"), Top.schema, Top.file,
                           Top.org, "root", resolved_refs))
    /\ UNCHANGED <<scn, fs, pending, resolved_refs, schema_cache, properties,
                   ret, loads, calls, probe, sched, pipeline>>

\* the first combinator key the fragment has is chosen
ParseCombinator ==
    /\ InParse("start")
    /\ IsDict(Top.schema)
    /\ ~Has(Top.schema, "$ref")
    /\ CombineKey(Top.schema) # ""
    /\ stack' = SetTop(stack, [Top EXCEPT !.pc = "comb",
                                          !.key = CombineKey(Top.schema)])
    /\ UNCHANGED <<scn, fs, pending, resolved_refs, schema_cache, properties,
                   ret, status, err, loads, calls, probe, sched, pipeline>>

\* one branch of the combinator
CombineStep ==
    /\ InParse("comb")
    /\ Top.i <= Len(Get(Top.schema, Top.key).el)
    /\ Invoke([Top EXCEPT !.i = Top.i + 1],
              ParseFrame(Get(Top.schema, Top.key).el[Top.i],
                         SubPath(Top.path, Top.key), Top.req, Top.file,
                         Top.org, NoRef))
    /\ UNCHANGED <<scn, fs, pending, resolved_refs, schema_cache, properties,
                   ret, loads, calls, probe, sched, pipeline>>

IsPlain(schema) ==
    IsDict(schema) /\ ~Has(schema, "$ref") /\ CombineKey(schema) = ""

\* an object: its properties are gone through
ParseObject ==
    /\ InParse("start")
    /\ IsPlain(Top.schema)
    /\ ObjectLike(Top.schema)
    /\ stack' = SetTop(stack, [Top EXCEPT !.pc = "props"])
    /\ UNCHANGED <<scn, fs, pending, resolved_refs, schema_cache, properties,
                   ret, status, err, loads, calls, probe, sched, pipeline>>

\* a bare array whose items are object-like
ParseArray ==
    /\ InParse("start")
    /\ IsPlain(Top.schema)
    /\ ~ObjectLike(Top.schema)
    /\ IsType(Top.schema, "array") /\ Has(Top.schema, "items")
    /\ ObjectLike(Get(Top.schema, "items"))
    /\ Invoke([Top EXCEPT !.pc = "done"],
              ParseFrame(Get(Top.schema, "items"),
                         IF Top.path # "" THEN Top.path \o "[]" ELSE "[]",
                         <<>>, Top.file, Top.org, NoRef))
    /\ UNCHANGED <<scn, fs, pending, resolved_refs, schema_cache, properties,
                   ret, loads, calls, probe, sched, pipeline>>

\* any other fragment is a leaf
ParseLeaf ==
    /\ InParse("start")
    /\ IsPlain(Top.schema)
    /\ ~ObjectLike(Top.schema)
    /\ ~(/\ IsType(Top.schema, "array") /\ Has(Top.schema, "items")
         /\ ObjectLike(Get(Top.schema, "items")))
    /\ stack' = Pop(stack)
    /\ UNCHANGED <<scn, fs, pending, resolved_refs, schema_cache, properties,
                   ret, status, err, loads, calls, probe, sched, pipeline>>

\* what parse_schema does with a declared property once its record is appended
PropertyDescent(f, prop_name, prop_schema) ==
    LET prop_path == f.path \o "/" \o prop_name
        next == [f EXCEPT !.i = f.i + 1]
        items_schema == Get(prop_schema, "items")
    IN  IF ObjectLike(prop_schema)
        THEN [kind |-> "call", caller |-> next,
              frame |-> ParseFrame(prop_schema, prop_path, <<>>, f.file,
                                   f.org, NoRef)]
        ELSE IF IsType(prop_schema, "array") /\ Has(prop_schema, "items")
        THEN IF ~IsDict(items_schema)
             THEN [kind |-> "raise", caller |-> next, frame |-> next]
             ELSE IF ObjectLike(items_schema)
             THEN [kind |-> "call", caller |-> next,
                   frame |-> ParseFrame(items_schema, prop_path \o "[]", <<>>,
                                        f.file, f.org, NoRef)]
             ELSE IF Has(items_schema, "$ref")
             THEN [kind |-> "call", caller |-> [f EXCEPT !.pc = "items_ret"],
                   frame |-> ResolveFrame(Get(items_schema, "$ref"),
                                          items_schema, f.file, f.org, "items",
                                          resolved_refs)]
             ELSE [kind |-> "next", caller |-> next, frame |-> next]
        ELSE IF Has(prop_schema, "$ref")
        THEN [kind |-> "call", caller |-> [f EXCEPT !.pc = "prop_ret"],
              frame |-> ResolveFrame(Get(prop_schema, "$ref"), prop_schema,
                                     f.file, f.org, "prop", resolved_refs)]
        ELSE [kind |-> "next", caller |-> next, frame |-> next]

\* one turn of "for prop_name, prop_schema in properties.items()"
PropertyStep ==
    /\ InParse("props")
    /\ LET props == GetOr(Top.schema, "properties", EmptyDict)
           required == GetOr(Top.schema, "required", L(<<>>)).el
       IN  /\ Top.i <= Len(props.kv)
           /\ LET prop_name == props.kv[Top.i][1]
                  prop_schema == props.kv[Top.i][2]
              IN  IF ~IsDict(prop_schema)
                  THEN Raise("TypeError") /\ UNCHANGED properties
                  ELSE LET d == PropertyDescent(Top, prop_name, prop_schema)
                       IN  /\ properties' =
                                 Append(properties,
                                        SchemaProperty(Top.path, prop_name,
                                                       prop_schema, required))
                           /\ IF d.kind = "raise" THEN Raise("AttributeError")
                              ELSE IF d.kind = "call"
                              THEN Invoke(d.caller, d.frame)
                              ELSE /\ stack' = SetTop(stack, d.caller)
                                   /\ UNCHANGED <<status, err>>
    /\ UNCHANGED <<scn, fs, pending, resolved_refs, schema_cache, ret, loads,
                   calls, probe, sched, pipeline>>

\* resolve_reference has returned to one of its three call sites, which calls
\* parse_schema on the fragment it got
AfterResolve ==
    /\ status = "running" /\ stack # <<>> /\ Top.fn = "parse"
    /\ Top.pc \in {"ref_ret", "items_ret", "prop_ret"}
    /\ LET props == GetOr(Top.schema, "properties", EmptyDict)
           prop_path == Top.path \o "/" \o props.kv[Top.i][1]
       IN  IF Top.pc = "ref_ret"
           THEN Invoke([Top EXCEPT !.pc = "done"],
                       ParseFrame(ret.val, Top.path, Top.req, Top.file,
                                  ret.org, ret.ref))
           ELSE Invoke([Top EXCEPT !.pc = "props", !.i = Top.i + 1],
                       ParseFrame(ret.val,
                                  IF Top.pc = "items_ret"
                                  THEN prop_path \o "[]" ELSE prop_path,
                                  <<>>, Top.file, ret.org, ret.ref))
    /\ ret' = NoRet
    /\ UNCHANGED <<scn, fs, pending, resolved_refs, schema_cache, properties,
                   loads, calls, probe, sched, pipeline>>

\* a parse_schema call returns
Return ==
    /\ status = "running" /\ stack # <<>> /\ Top.fn = "parse"
    /\ \/ Top.pc = "done"
       \/ Top.pc = "comb" /\ Top.i > Len(Get(Top.schema, Top.key).el)
       \/ Top.pc = "props"
            /\ Top.i > Len(GetOr(Top.schema, "properties", EmptyDict).kv)
    /\ stack' = Pop(stack)
    /\ UNCHANGED <<scn, fs, pending, resolved_refs, schema_cache, properties,
                   ret, status, err, loads, calls, probe, sched, pipeline>>

-----------------------------------------------------------------------------
(* resolve_reference, in two steps: the guard, then the try/finally block *)

\* what the call hands back to its call site, with the history of the call
Returned(f, how, val, org, post, load) ==
    [how |-> how, val |-> val, ref |-> f.ref, org |-> org, site |-> f.site,
     pre |-> f.pre, post |-> post, active |-> ActiveRefs(stack), load |-> load]

\* "if ref in self.resolved_refs: return ..." and "self.resolved_refs.add(ref)"
ResolveEnter ==
    /\ InResolve("enter")
    /\ IF Top.ref.tag \in {"dict", "list"}
       THEN /\ Raise("TypeError")
            /\ ret' = Returned(Top, "raised", EmptyDict, Top.org, resolved_refs,
                            NoLoad)
            /\ UNCHANGED resolved_refs
       ELSE IF Top.ref \in resolved_refs
       THEN /\ stack' = Pop(stack)
            /\ ret' = Returned(Top, "cycle", CyclePlaceholder(TokenAtoms(Top.ref)),
                               Top.org, resolved_refs, NoLoad)
            /\ UNCHANGED <<resolved_refs, status, err>>
       ELSE /\ resolved_refs' = resolved_refs \cup {Top.ref}
            /\ stack' = SetTop(stack, [Top EXCEPT !.pc = "body"])
            /\ UNCHANGED <<ret, status, err>>
    /\ UNCHANGED <<scn, fs, pending, schema_cache, properties, loads, calls,
                   probe, sched, pipeline>>

\* the try block and its finally
ResolveBody ==
    /\ InResolve("body")
    /\ LET r == ResolveTry(Top.ref, Top.cur, Top.file, scn.base, scn.cwd,
                           schema_cache, fs)
           post == ResolveFinally(resolved_refs, Top.ref)
           org == IF r.how \in {"fragment", "file"} THEN r.load.key ELSE Top.org
       IN  /\ resolved_refs' = post
           /\ schema_cache' = r.cache
           /\ loads' = IF r.load.how = "none" THEN loads
                       ELSE Append(loads, [key |-> r.load.key, how |-> r.load.how,
                                           org |-> Top.org,
                                           rel |-> FilePart(Top.ref.at)])
           /\ ret' = Returned(Top, r.how, r.val, org, post, r.load)
           /\ IF r.raised
              THEN Raise("AttributeError")
              ELSE stack' = Pop(stack) /\ UNCHANGED <<status, err>>
    /\ UNCHANGED <<scn, fs, pending, properties, calls, probe, sched, pipeline>>

-----------------------------------------------------------------------------
(* The environment *)

\* a file is written while the instance is in use
EnvWrite ==
    /\ \E w \in pending :
        /\ fs' = (w.key :> w.content) @@ fs
        /\ pending' = pending \ {w}
    /\ UNCHANGED <<scn, resolved_refs, schema_cache, properties, stack, ret,
                   status, err, loads, calls, probe, sched, pipeline>>

Next ==
    \/ Visualize
    \/ VisualizeReturn
    \/ ParseRaise
    \/ ParseRef
    \/ ParseCombinator
    \/ CombineStep
    \/ ParseObject
    \/ ParseArray
    \/ ParseLeaf
    \/ PropertyStep
    \/ AfterResolve
    \/ Return
    \/ ResolveEnter
    \/ ResolveBody
    \/ EnvWrite

Spec == Init /\ [][Next]_vars

-----------------------------------------------------------------------------
(* Two runs whose steps interleave *)

\* a reference to a fragment of another file
DocOneRef ==
    Obj(<< <<"p", Ref(<<"Defs", ".yaml", "#", "/", "defs", "/", "X">>)>> >>)

TwoScenarios == <<
    Scenario({Root, <<"B", ".json">>},
             (InD1(Root) :> Yaml(DocOneRef))
                 @@ (InD1(<<"B", ".json">>) :> Json(DocExample))
                 @@ (InD1(<<"Defs", ".yaml">>) :> Yaml(DocDefs)), {}),
    One(DocOneOf),
    Scenario({Root}, InD1(Root) :> Yaml(DocRootArray),
             {[key |-> InD1(<<"Gone", ".yaml">>), content |-> Yaml(DocDefs)]}),
    One(DocStrTarget)
>>

\* the instance the other run works on, which is the current run's instance
\* when the two share one and an instance with fields of its own otherwise
\* (__init__ as it would be if resolved_refs were an attribute of the class)
InstanceClassGuard(his, shared) ==
    IF shared
    THEN [resolved_refs |-> resolved_refs, schema_cache |-> schema_cache,
          properties |-> properties, calls |-> calls]
    ELSE [resolved_refs |-> resolved_refs, schema_cache |-> his.schema_cache,
          properties |-> his.properties, calls |-> his.calls]

\* the instance the other run works on: the current run's instance when the
\* two share one, and otherwise an instance with the fields __init__ gave it
InstanceOf(his, shared) ==
    IF shared
    THEN [resolved_refs |-> resolved_refs, schema_cache |-> schema_cache,
          properties |-> properties, calls |-> calls]
    ELSE [resolved_refs |-> his.resolved_refs, schema_cache |-> his.schema_cache,
          properties |-> his.properties, calls |-> his.calls]

\* the current run as it is left when the other one is given a turn
Suspended(shared) ==
    [resolved_refs |-> IF shared THEN {} ELSE resolved_refs,
     schema_cache |-> IF shared THEN EmptyCache ELSE schema_cache,
     properties |-> IF shared THEN <<>> ELSE properties,
     calls |-> IF shared THEN 0 ELSE calls,
     stack |-> stack, ret |-> ret, status |-> status, err |-> err,
     loads |-> loads, cut |-> sched.cut \/ status = "running",
     outs |-> sched.outs]

TwoInit ==
    /\ \E n \in 1..Len(TwoScenarios) : scn = TwoScenarios[n]
    /\ fs = scn.fs
    /\ pending = scn.pending
    /\ resolved_refs = {}
    /\ schema_cache = EmptyCache
    /\ properties = <<>>
    /\ stack = <<>>
    /\ ret = NoRet
    /\ status = "idle"
    /\ err = ""
    /\ loads = <<>>
    /\ calls = 0
    /\ probe = NoProbe
    /\ \E m \in {"own", "shared"} : sched = [NoSched EXCEPT !.mode = m]
    /\ pipeline = NoPipeline

\* the other run is given its turn, if it has a step to take; the second run
\* makes one call, the first one up to MaxCalls
Switch ==
    /\ sched.mode # "single"
    /\ LET shared == sched.mode = "shared"
           his == sched.other
           inst == InstanceOf(his, shared)
       IN  /\ \/ his.status \in {"running", "idle"}
              \/ sched.me = 2 /\ inst.calls < MaxCalls
           /\ resolved_refs' = inst.resolved_refs
           /\ schema_cache' = inst.schema_cache
           /\ properties' = inst.properties
           /\ calls' = inst.calls
           /\ stack' = his.stack
           /\ ret' = his.ret
           /\ status' = his.status
           /\ err' = his.err
           /\ loads' = his.loads
           /\ sched' = [mode |-> sched.mode, me |-> 3 - sched.me,
                        cut |-> his.cut, outs |-> his.outs,
                        other |-> Suspended(shared)]
    /\ UNCHANGED <<scn, fs, pending, probe, pipeline>>

TwoNext == Next \/ Switch

SpecTwo == TwoInit /\ [][TwoNext]_vars

-----------------------------------------------------------------------------
(* Properties of the flattener *)

Returned_ == ret.how # "none"
InternalToken(ref) == IsStr(ref) /\ StartsWithHashSlash(ref.at)
InternalParts(ref) == SplitSlash(SubSeq(ref.at, 3, Len(ref.at)), <<>>)

\* C1: a reference whose token is already being resolved on the active
\* recursion path is answered with the cycle placeholder, and a run never ends
\* by exhausting the recursion depth.
C1_CycleEndsInPlaceholder ==
    /\ err # "RecursionError"
    /\ (Returned_ /\ ret.ref \in ret.active) => ret.how = "cycle"

\* C2: an internal reference `#/k1/.../kn` found anywhere in a document that
\* has the key path k1, ..., kn from its root resolves to that fragment of the
\* document.
C2_InternalRefWalksDocument ==
    (/\ Returned_ /\ ret.how # "cycle" /\ InternalToken(ret.ref)
     /\ ret.org \in DOMAIN schema_cache)
    => LET w == Walk(schema_cache[ret.org], InternalParts(ret.ref), ret.ref.at)
       IN  w.found => (ret.how = "internal" /\ ret.val = w.val)

\* the directory of the file with this resolved path
DirOf(key) == [abs |-> TRUE, parts |-> SubSeq(key, 1, Len(key) - 1)]

\* C3: every file reference is loaded relative to the directory of the
\* document in which the reference occurs.
C3_FileRefRelativeToReferrer ==
    \A n \in 1..Len(loads) :
        loads[n].org # <<>>
        => loads[n].key = Resolve(Join(DirOf(loads[n].org), PathOf(loads[n].rel)),
                                  scn.cwd)

\* the loads of one file, in the order they were made
SameFile(m, n) == m < n /\ loads[m].key = loads[n].key

\* C4 as claimed: each physical file is opened and parsed at most once in a
\* run, whether or not the parse succeeds.
C4_EachFileParsedOnce ==
    \A m, n \in 1..Len(loads) :
        (SameFile(m, n) /\ loads[m].how \in {"parsed", "error"})
        => loads[n].how \notin {"parsed", "error"}

\* C4 as amended: once a load of a file has succeeded in a run, every later
\* load of that file is answered from schema_cache without opening it.
C4_ParsedFileServedFromCache ==
    \A m, n \in 1..Len(loads) :
        (SameFile(m, n) /\ loads[m].how \in {"parsed", "hit"})
        => loads[n].how = "hit"

C4_Witness ==
    \E m, n \in 1..Len(loads) :
        /\ SameFile(m, n) /\ loads[m].how = "parsed" /\ loads[n].how = "hit"
        /\ loads[m].org # <<>> /\ loads[n].rel = loads[m].rel

\* C5: every resolve_reference call leaves resolved_refs as it found it, on
\* every exit path, and a token that is not on the active path is never
\* answered with the cycle placeholder.
C5_GuardRestored ==
    Returned_ =>
        /\ ret.post = ret.pre
        /\ resolved_refs = ret.pre
        /\ ret.ref \notin ret.active => ret.how # "cycle"

\* the same token resolved in full from a second sibling property
C5_Witness ==
    /\ Returned_ /\ ret.how = "fragment" /\ ret.site = "prop"
    /\ Len(properties) >= 2
    /\ \E n \in 1..(Len(properties) - 1) :
        /\ properties[n].data_type = properties[Len(properties)].data_type
        /\ properties[n].path = properties[Len(properties)].path
        /\ properties[n].data_type = "ref(" \o Show(ret.ref.at) \o ")"

RemoteToken(ref) == IsStr(ref) /\ Len(ref.at) >= 1 /\ ref.at[1] \in HttpAtoms

\* C6: a remote token is answered with the "external" placeholder, the loader
\* is not called and the cache is left as it is; the placeholder is walked as
\* a leaf that emits no record.
C6_RemoteNeverLoaded ==
    [][/\ (InResolve("body") /\ RemoteToken(Top.ref) /\ stack' # stack)
          => /\ ret'.how = "external"
             /\ ret'.val = ExternalPlaceholder(Top.ref.at)
             /\ schema_cache' = schema_cache
             /\ loads' = loads
             /\ status' = "running"
       /\ (InParse("start") /\ RemoteToken(Top.via) /\ stack' # stack)
          => /\ stack' = Pop(stack)
             /\ properties' = properties
             /\ status' = "running"]_vars

C6_Witness ==
    /\ InParse("start") /\ RemoteToken(Top.via)
    /\ Top.schema = ExternalPlaceholder(Top.via.at)
    /\ properties # <<>> /\ schema_cache # EmptyCache

\* the property whose reference has just been resolved, and its record
CallerProp == GetOr(Top.schema, "properties", EmptyDict).kv[Top.i]
LastRecord == properties[Len(properties)]

\* resolve_reference has just answered a property's reference whose key path
\* does not exist in the (successfully loaded) document it points into
MissingKeyPath ==
    /\ Returned_ /\ ret.site = "prop" /\ IsStr(ret.ref)
    /\ IF InternalToken(ret.ref)
       THEN /\ ret.org \in DOMAIN schema_cache
            /\ ~Walk(schema_cache[ret.org], InternalParts(ret.ref),
                     ret.ref.at).found
       ELSE ret.load.how \in {"parsed", "hit"} /\ ret.how = "unknown"

OnlyRef(schema) ==
    /\ Has(schema, "$ref")
    /\ ~Has(schema, "type") /\ ~Has(schema, "enum") /\ ~HasCombinator(schema)

\* C7 as claimed: the record of a property whose reference names a missing key
\* path carries the type string "unknown".
C7_UnknownTypeAtPosition ==
    MissingKeyPath =>
        /\ status = "running"
        /\ LastRecord.name = CallerProp[1]
        /\ LastRecord.data_type = "unknown"

\* a fragment a reference was answered with is walked as a leaf
WalkedAsLeaf(val) ==
    \A n \in 1..Len(stack) :
        (stack[n].fn = "parse" /\ stack[n].via # NoRef /\ stack[n].schema = val)
        => (n = Len(stack) /\ stack[n].pc = "start")

\* C7 as amended: resolving such a reference raises nothing, and the record of
\* the property carries "ref(<token>)" (its own type if the fragment declares
\* one); "unknown" is the type of the placeholder the resolver returns, which
\* is walked as a leaf.
C7_RefTypeAtPosition ==
    /\ MissingKeyPath =>
        /\ status = "running"
        /\ ret.how = "unknown" => ret.val = UnknownPlaceholder(ret.ref.at)
        /\ LastRecord.name = CallerProp[1]
        /\ OnlyRef(CallerProp[2])
           => LastRecord.data_type = "ref(" \o Show(ret.ref.at) \o ")"
        /\ (Has(CallerProp[2], "type") /\ IsStr(Get(CallerProp[2], "type")))
           => LastRecord.data_type = Show(Get(CallerProp[2], "type").at)
    /\ \A n \in 1..Len(stack) :
        (stack[n].fn = "parse" /\ IsStr(stack[n].via))
        => WalkedAsLeaf(UnknownPlaceholder(stack[n].via.at))

C7_Witness ==
    /\ MissingKeyPath /\ OnlyRef(CallerProp[2]) /\ InternalToken(ret.ref)
    /\ ret.how = "unknown"

\* resolve_reference has just answered a reference into a file whose load
\* failed
FailedLoad == Returned_ /\ ret.load.how \in {"missing", "error"}
WholeFile(ref) == HashSlash(ref.at) = 0

\* C8 as claimed: every reference into a missing or unparsable file, with or
\* without a fragment, resolves to the "unknown" placeholder.
C8_FailedFileGivesUnknown ==
    FailedLoad =>
        /\ status = "running"
        /\ ret.val = UnknownPlaceholder(ret.ref.at)

RootLoaded == loads # <<>> /\ loads[1].how = "parsed"
RootDoc == schema_cache[loads[1].key]
KeysOf(d) == [n \in 1..Len(d.kv) |-> d.kv[n][1]]
Names(recs) == [n \in 1..Len(recs) |-> recs[n].name]
AtRoot(rec) == rec.path = "/"

\* C8 as amended: a failed load raises nothing and yields the empty document;
\* a reference with a fragment into it resolves to the "unknown" placeholder
\* and a reference to the whole file resolves to the empty document, both
\* walked as leaves, and the remaining properties are gone through.
C8_FailedFileGivesEmpty ==
    /\ FailedLoad =>
        /\ status = "running"
        /\ ~WholeFile(ret.ref) => (/\ ret.how = "unknown"
                                   /\ ret.val = UnknownPlaceholder(ret.ref.at))
        /\ WholeFile(ret.ref) => ret.val = EmptyDict
    /\ WalkedAsLeaf(EmptyDict)
    /\ (/\ status = "done" /\ RootLoaded
        /\ \E n \in 1..Len(loads) : loads[n].how \in {"missing", "error"}
        /\ IsPlain(RootDoc) /\ ObjectLike(RootDoc))
       => Names(SelectSeq(properties, AtRoot))
             = KeysOf(GetOr(RootDoc, "properties", EmptyDict))

C8_Witness ==
    /\ status = "done"
    /\ \E m, n \in 1..Len(loads) :
        /\ loads[m].how = "missing" /\ loads[m].org # <<>>
        /\ loads[n].how = "error"
    /\ Len(properties) > 4

\* the property names declared at every level reachable through `properties`
\* and `items`, each before the names of its own children
RECURSIVE DeclaredNames(_), DeclaredIn(_, _)
DeclaredNames(fragment) ==
    IF ~IsDict(fragment) THEN <<>>
    ELSE IF ObjectLike(fragment)
    THEN DeclaredIn(GetOr(fragment, "properties", EmptyDict).kv, 1)
    ELSE IF IsType(fragment, "array") /\ Has(fragment, "items")
    THEN DeclaredNames(Get(fragment, "items"))
    ELSE <<>>
DeclaredIn(kv, n) ==
    IF n > Len(kv) THEN <<>>
    ELSE <<kv[n][1]>> \o DeclaredNames(kv[n][2]) \o DeclaredIn(kv, n + 1)

\* no `$ref` and no combinator anywhere in the value
RECURSIVE RefFree(_)
RefFree(v) ==
    IF IsDict(v)
    THEN /\ ~Has(v, "$ref") /\ ~HasCombinator(v)
         /\ \A n \in 1..Len(v.kv) : RefFree(v.kv[n][2])
    ELSE IF IsList(v) THEN \A n \in 1..Len(v.el) : RefFree(v.el[n])
    ELSE TRUE

\* C9: for a schema without `$ref` and combinators the records are, in order,
\* exactly the declared properties of every level reachable through
\* `properties` and `items`.
C9_OneRecordPerDeclaredProperty ==
    (status = "done" /\ RootLoaded /\ RefFree(RootDoc))
    => Names(properties) = DeclaredNames(RootDoc)

-----------------------------------------------------------------------------
(* get_cardinality applied on its own *)

OptionalItems(key) == {<<>>} \cup {<< <<key, N(n)>> >> : n \in 0..MaxItems}
OptionalType ==
    {<<>>} \cup {<< <<"type", Str(t)>> >> : t \in {"string", "array", "object"}}

CardinalitySchemas ==
    {D(t \o lo \o hi) : t \in OptionalType, lo \in OptionalItems("minItems"),
                        hi \in OptionalItems("maxItems")}
        \cup {Get(DocExample, "properties").kv[n][2] : n \in 1..2}

RequiredLists ==
    {<<>>, <<Str("id")>>, <<Str("tags")>>, <<Str("id"), Str("tags")>>}

CardInit ==
    /\ scn = Scenarios[1]
    /\ fs = scn.fs
    /\ pending = {}
    /\ resolved_refs = {}
    /\ schema_cache = EmptyCache
    /\ properties = <<>>
    /\ stack = <<>>
    /\ ret = NoRet
    /\ status = "idle"
    /\ err = ""
    /\ loads = <<>>
    /\ calls = 0
    /\ \E sch \in CardinalitySchemas, req \in RequiredLists,
          name \in {"id", "tags"} :
            probe = [schema |-> sch, required |-> req, name |-> name, out |-> ""]
    /\ sched = NoSched
    /\ pipeline = NoPipeline

ApplyCardinality ==
    /\ probe.out = ""
    /\ probe' = [probe EXCEPT
                   !.out = get_cardinality(probe.schema, probe.required,
                                           probe.name)]
    /\ UNCHANGED <<scn, fs, pending, resolved_refs, schema_cache, properties,
                   stack, ret, status, err, loads, calls, sched, pipeline>>

CardNext == ApplyCardinality

SpecCard == CardInit /\ [][CardNext]_vars

ProbeRequired == \E n \in 1..Len(probe.required) : probe.required[n] = Str(probe.name)
ProbeArray == Has(probe.schema, "type") /\ Get(probe.schema, "type").at = <<"array">>
ProbeMin == IF Has(probe.schema, "minItems") THEN Get(probe.schema, "minItems").n ELSE 0
ProbeMax ==
    IF Has(probe.schema, "maxItems")
    THEN ToString(Get(probe.schema, "maxItems").n) ELSE "*"

\* C10: the cardinality is "1..1" / "0..1" for a required / optional property
\* that is no array, "0..1 (array)" for an optional array whatever its bounds,
\* and "<minItems or 0>..<maxItems or *>" for a required array.
C10_Cardinality ==
    probe.out # "" =>
        probe.out = IF ~ProbeArray
                    THEN (IF ProbeRequired THEN "1..1" ELSE "0..1")
                    ELSE IF ~ProbeRequired THEN "0..1 (array)"
                    ELSE ToString(ProbeMin) \o ".." \o ProbeMax

C10_Witness ==
    /\ probe.out = "0..1 (array)"
    /\ probe.schema = Get(Get(DocExample, "properties"), "tags")
    /\ probe.required = Get(DocExample, "required").el
    /\ probe.name = "tags"

-----------------------------------------------------------------------------
(* get_type_string applied on its own *)

TypeOptions ==
    {<<>>, << <<"type", L(<<Str("string"), Str("null")>>)>> >>}
        \cup {<< <<"type", Str(t)>> >> : t \in {"string", "array", "object"}}
EnumOptions ==
    {<<>>} \cup {<< <<"enum", L(el)>> >> :
                    el \in {<<Str("a"), N(1)>>, <<Str("a"), Str("b"), Str("c")>>,
                            <<N(1), N(2), N(3), N(4)>>}}
CombinatorOptions ==
    {<<>>, << <<"allOf", L(<<Prim("string")>>)>>,
              <<"oneOf", L(<<Prim("string")>>)>> >>}
        \cup {<< <<k, L(<<Prim("string")>>)>> >> : k \in {"oneOf", "anyOf", "allOf"}}
RefOptions == {<<>>, << <<"$ref", S(<<"#", "/", "definitions", "/", "A">>)>> >>}
ItemsOptions ==
    {<<>>} \cup {<< <<"items", it>> >> :
                    it \in {EmptyDict, Prim("string"), Prim("array"),
                            D(<< <<"enum", L(<<Str("a"), N(1)>>)>> >>),
                            Ref(<<"B.yaml">>),
                            D(<< <<"anyOf", L(<<Prim("string")>>)>>,
                                 <<"$ref", S(<<"B.yaml">>)>> >>)}}

TypeSchemas ==
    {D(t \o e \o c \o r \o i) : t \in TypeOptions, e \in EnumOptions,
                                c \in CombinatorOptions, r \in RefOptions,
                                i \in ItemsOptions}

TypeInit ==
    /\ scn = Scenarios[1]
    /\ fs = scn.fs
    /\ pending = {}
    /\ resolved_refs = {}
    /\ schema_cache = EmptyCache
    /\ properties = <<>>
    /\ stack = <<>>
    /\ ret = NoRet
    /\ status = "idle"
    /\ err = ""
    /\ loads = <<>>
    /\ calls = 0
    /\ \E sch \in TypeSchemas :
            probe = [schema |-> sch, required |-> <<>>, name |-> "", out |-> ""]
    /\ sched = NoSched
    /\ pipeline = NoPipeline

ApplyTypeString ==
    /\ probe.out = ""
    /\ probe' = [probe EXCEPT !.out = get_type_string(probe.schema)]
    /\ UNCHANGED <<scn, fs, pending, resolved_refs, schema_cache, properties,
                   stack, ret, status, err, loads, calls, sched, pipeline>>

TypeNext == ApplyTypeString

SpecType == TypeInit /\ [][TypeNext]_vars

\* the type string the fixed order type, enum, combinator, $ref gives; the
\* flag says whether an empty items fragment counts as an absent one
RECURSIVE ByOrder(_, _)
ByOrder(schema, empty_is_absent) ==
    IF Has(schema, "type")
    THEN LET t == Get(schema, "type")
         IN  IF IsList(t) THEN JoinStr(t.el, " | ")
             ELSE IF t # Str("array") THEN Show(t.at)
             ELSE IF ~Has(schema, "items") THEN "array<any>"
             ELSE IF empty_is_absent /\ Get(schema, "items") = EmptyDict
             THEN "array<any>"
             ELSE "array<" \o ByOrder(Get(schema, "items"), empty_is_absent)
                           \o ">"
    ELSE IF Has(schema, "enum")
    THEN LET el == Get(schema, "enum").el
         IN  IF Len(el) <= 3 THEN "enum(" \o JoinStr(el, ", ") \o ")"
             ELSE "enum(" \o ToString(Len(el)) \o " values)"
    ELSE IF \E k \in {"oneOf", "anyOf", "allOf"} : Has(schema, k)
    THEN IF Has(schema, "oneOf") THEN "oneOf"
         ELSE IF Has(schema, "anyOf") THEN "anyOf" ELSE "allOf"
    ELSE IF Has(schema, "$ref")
    THEN "ref(" \o Show(Get(schema, "$ref").at) \o ")"
    ELSE "unknown"

Untouched ==
    /\ loads = <<>> /\ stack = <<>> /\ resolved_refs = {}
    /\ schema_cache = EmptyCache /\ ret = NoRet

\* C11 as stated: the type string follows the order type, enum, combinator,
\* $ref, "unknown", an array showing "array<T>" with T derived from items
\* whenever items is present and "array<any>" only when items is absent; no
\* reference is resolved on the way.
C11_TypeByOrder ==
    probe.out # "" => probe.out = ByOrder(probe.schema, FALSE) /\ Untouched

\* C11 amended: the same order, with "array<any>" also for an items fragment
\* that is present but empty.
C11_TypeByOrderEmptyItems ==
    probe.out # "" => probe.out = ByOrder(probe.schema, TRUE) /\ Untouched

C11_Witness ==
    /\ probe.out = "enum(a, 1)"
    /\ Has(probe.schema, "$ref") /\ Has(probe.schema, "oneOf")
    /\ ~Has(probe.schema, "type")

-----------------------------------------------------------------------------
(* Combinators *)

PathNames(recs) == [n \in 1..Len(recs) |-> <<recs[n].path, recs[n].name>>]

\* an object whose properties are all primitives, or a leaf: a fragment that
\* is neither an object nor an array of objects
FlatBranch(b) ==
    /\ IsPlain(b)
    /\ \A n \in 1..Len(GetOr(b, "properties", EmptyDict).kv) :
          LET p == GetOr(b, "properties", EmptyDict).kv[n][2]
          IN  IsPlain(p) /\ ~ObjectLike(p) /\ ~IsType(p, "array")
    /\ \/ ObjectLike(b)
       \/ ~(/\ IsType(b, "array") /\ Has(b, "items")
            /\ ObjectLike(Get(b, "items")))

\* the records of a flat branch walked at a path
BranchRecords(b, path) ==
    [n \in 1..Len(GetOr(b, "properties", EmptyDict).kv) |->
        <<IF path = "" THEN "/" ELSE path,
          GetOr(b, "properties", EmptyDict).kv[n][1]>>]

Marker(key) ==
    IF key = "anyOf" THEN "[or]/" ELSE IF key = "oneOf" THEN "[xor]/" ELSE ""

RECURSIVE BranchesRecords(_, _)
BranchesRecords(branches, path) ==
    IF branches = <<>> THEN <<>>
    ELSE BranchRecords(branches[1], path) \o BranchesRecords(Tail(branches), path)

OneCombinator(schema) ==
    /\ IsDict(schema) /\ ~Has(schema, "$ref")
    /\ Cardinality({k \in {"allOf", "anyOf", "oneOf"} : Has(schema, k)}) = 1

RootBranches == Get(RootDoc, CombineKey(RootDoc)).el

\* a walker call that is going through a combinator has called itself on the
\* branch before its index, at the path with the combinator's marker
BranchCalls ==
    \A n \in 1..(Len(stack) - 1) :
        (stack[n].fn = "parse" /\ stack[n].pc = "comb")
        => /\ stack[n].i - 1 \in 1..Len(Get(stack[n].schema, stack[n].key).el)
           /\ stack[n + 1].fn = "parse"
           /\ stack[n + 1].schema
                 = Get(stack[n].schema, stack[n].key).el[stack[n].i - 1]
           /\ stack[n + 1].path = stack[n].path \o Marker(stack[n].key)

\* a root combinator of flat branches gives the records of its branches one
\* after the other
BranchTables ==
    (/\ status = "done" /\ RootLoaded /\ OneCombinator(RootDoc)
     /\ \A n \in 1..Len(RootBranches) : FlatBranch(RootBranches[n]))
    => PathNames(properties)
          = BranchesRecords(RootBranches, Marker(CombineKey(RootDoc)))

\* C12 as stated: the branches of a combinator are walked in list order, at
\* the path itself (allOf) or at the path with "[or]/" (anyOf) or "[xor]/"
\* (oneOf), the records of all branches are appended, and a combinator none
\* of whose branches is an object yields no record.
C12_NoObjectBranchNoRecords ==
    /\ BranchCalls
    /\ BranchTables
    /\ (/\ status = "done" /\ RootLoaded /\ OneCombinator(RootDoc)
        /\ \A n \in 1..Len(RootBranches) :
              IsDict(RootBranches[n]) /\ ~ObjectLike(RootBranches[n]))
       => properties = <<>>

\* C12 amended: the same order, paths and appending; no record comes from a
\* combinator whose branches are all leaves, a branch that is an array of
\* objects (or a reference or combinator leading to an object) being walked
\* like an object branch.
C12_BranchesInOrder ==
    /\ BranchCalls
    /\ BranchTables
    /\ (/\ status = "done" /\ RootLoaded /\ OneCombinator(RootDoc)
        /\ \E n \in 1..Len(RootBranches) :
              /\ IsPlain(RootBranches[n]) /\ ~ObjectLike(RootBranches[n])
              /\ IsType(RootBranches[n], "array") /\ Has(RootBranches[n], "items")
              /\ ObjectLike(Get(RootBranches[n], "items"))
              /\ Get(Get(RootBranches[n], "items"), "properties").kv # <<>>)
       => \E m \in 1..Len(properties) :
             properties[m].path = Marker(CombineKey(RootDoc)) \o "[]"

C12_Witness ==
    /\ status = "done" /\ RootLoaded /\ RootDoc = DocAnyOf
    /\ PathNames(properties)
          = << <<"[or]/", "a">>, <<"[or]/", "b">>, <<"[or]/", "a">> >>

-----------------------------------------------------------------------------
(* Reuse of an instance, and two runs in turn *)

\* the tables returned so far, by either run, on a file system no write had
\* touched
Tables ==
    {o \in {sched.outs[n] : n \in 1..Len(sched.outs)}
            \cup {sched.other.outs[n] : n \in 1..Len(sched.other.outs)} :
        ~o.late}

LoadedKeys == {loads[n].key : n \in 1..Len(loads)}

\* C13: on instances of their own, any two calls on the same unchanged root
\* file return the same table, whether the call is the first one on its
\* instance or follows a call on another root file or on the same one, and a
\* call raises only if every call on that root does; the cache of an instance
\* holds nothing but what its current call loaded.
C13_NoStateSurvives ==
    sched.mode = "own" =>
        /\ \A a, b \in Tables : a.root = b.root => a.table = b.table
        /\ (status = "error" /\ loads # <<>> /\ pending = scn.pending)
           => \A a \in Tables : a.root # loads[1].rel
        /\ DOMAIN schema_cache \subseteq LoadedKeys

\* the first run's second call, after a call on another root, has returned
\* what the second run's only call returned for the same root
C13_Witness ==
    /\ sched.mode = "own" /\ sched.me = 1
    /\ Len(sched.outs) = 2 /\ Len(sched.other.outs) = 1
    /\ sched.outs[1].root # sched.outs[2].root
    /\ sched.outs[2].root = sched.other.outs[1].root
    /\ sched.outs[2].table = sched.other.outs[1].table
    /\ Len(sched.outs[2].table) = 2
    /\ sched.outs[2].table[1].name = "p"

\* C14: a run that was interleaved with the other run's steps, on an instance
\* of its own, returns the table every other call on the same root returned;
\* and resolve_reference, whose guard holds no token when a single run calls
\* it, answers with the cycle placeholder only on an instance that two runs
\* share.
C14_IsolatedOnOwnInstance ==
    /\ (/\ sched.mode = "own" /\ status = "done" /\ sched.cut
        /\ pending = scn.pending)
       => \A b \in Tables :
             b.root = loads[1].rel => b.table = sched.outs[Len(sched.outs)].table
    /\ (Returned_ /\ ret.how = "cycle") => sched.mode = "shared"

\* on a shared instance a reference that is on no cycle is answered with the
\* cycle placeholder, its token being in the guard for the other run
C14_Witness ==
    /\ sched.mode = "shared"
    /\ Returned_ /\ ret.how = "cycle"
    /\ ret.ref \notin ret.active
    /\ ret.ref \in {f.ref : f \in {sched.other.stack[n] :
                                     n \in {m \in 1..Len(sched.other.stack) :
                                              sched.other.stack[m].fn = "resolve"}}}

-----------------------------------------------------------------------------
(* Exceptions *)

\* C15: no exception raised while the walker goes through a schema leaves
\* visualize_schema: a run never ends in an exception.
C15_NoExceptionEscapes == status # "error"

-----------------------------------------------------------------------------
(* The indexing loop of pipeline/poc-framing.py: each document is fetched,   *)
(* uploaded, and its indexing task polled                                    *)

\* range(15)
MaxPolls == 15

TaskStatuses == {"enqueued", "processing", "canceled", "succeeded", "failed"}
NoResponse == [code |-> 0, status |-> ""]
\* what the task endpoint answers
TaskResponses ==
    {[code |-> 200, status |-> s] : s \in TaskStatuses}
        \cup {[code |-> c, status |-> ""] : c \in {404, 500}}
\* what the documents endpoint answers
UploadCodes == {202, 200, 400}

\* the test of the task status as it would be if only success ended polling
IsFinalSucceeded(task_status) == task_status = "succeeded"

\* status == 'succeeded' or status == 'failed'
IsFinal(task_status) == task_status \in {"succeeded", "failed"}

\* the loop over los_results turns to the next document; as history, how
\* the document it leaves went: the answer to its upload, the task queries
\* made and the answer to the last one
NextDocument(code, polls, response) ==
    [pipeline EXCEPT !.pc = IF pipeline.doc + 1 > pipeline.n THEN "end"
                            ELSE "fetch",
                     !.doc = pipeline.doc + 1, !.upload = 0, !.i = 0,
                     !.polls = 0, !.last = NoResponse,
                     !.prev = [upload |-> code, polls |-> polls,
                               last |-> response]]

\* a request raises and the script ends
Aborted == [pipeline EXCEPT !.pc = "aborted"]

PipeInit ==
    /\ scn = Scenarios[1]
    /\ fs = scn.fs
    /\ pending = {}
    /\ resolved_refs = {}
    /\ schema_cache = EmptyCache
    /\ properties = <<>>
    /\ stack = <<>>
    /\ ret = NoRet
    /\ status = "idle"
    /\ err = ""
    /\ loads = <<>>
    /\ calls = 0
    /\ probe = NoProbe
    /\ sched = NoSched
    /\ \E n \in 0..MaxDocs :
          pipeline = [pc |-> IF n = 0 THEN "end" ELSE "fetch", n |-> n,
                      doc |-> 1, upload |-> 0, i |-> 0, polls |-> 0,
                      last |-> NoResponse,
                      prev |-> [upload |-> 0, polls |-> 0,
                                last |-> NoResponse]]

Flattener == <<scn, fs, pending, resolved_refs, schema_cache, properties,
               stack, ret, status, err, loads, calls, probe, sched>>

\* the document is queried from the triple store and framed
FetchDocument ==
    /\ pipeline.pc = "fetch"
    /\ \/ pipeline' = [pipeline EXCEPT !.pc = "upload"]
       \/ pipeline' = Aborted
    /\ UNCHANGED Flattener

\* requests.post(upload_url, ...): polling starts on 202 only
UploadDocument ==
    /\ pipeline.pc = "upload"
    /\ \/ \E code \in UploadCodes :
            pipeline' = IF code = 202
                        THEN [pipeline EXCEPT !.pc = "poll", !.upload = code]
                        ELSE NextDocument(code, 0, NoResponse)
       \/ pipeline' = Aborted
    /\ UNCHANGED Flattener

\* one turn of "for i in range(15)" up to the break or the sleep
QueryTask ==
    /\ pipeline.pc = "poll"
    /\ pipeline.i < MaxPolls
    /\ \/ \E response \in TaskResponses :
            pipeline' =
                IF response.code = 200 /\ ~IsFinal(response.status)
                THEN [pipeline EXCEPT !.pc = "sleep", !.last = response,
                                      !.polls = pipeline.polls + 1]
                ELSE NextDocument(pipeline.upload, pipeline.polls + 1,
                                  response)
       \/ pipeline' = Aborted
    /\ UNCHANGED Flattener

\* time.sleep(2), and the loop variable takes its next value
Sleep ==
    /\ pipeline.pc = "sleep"
    /\ pipeline' = [pipeline EXCEPT !.pc = "poll", !.i = pipeline.i + 1]
    /\ UNCHANGED Flattener

\* range(15) is used up
LoopEnds ==
    /\ pipeline.pc = "poll"
    /\ pipeline.i >= MaxPolls
    /\ pipeline' = NextDocument(pipeline.upload, pipeline.polls,
                                 pipeline.last)
    /\ UNCHANGED Flattener

PipeNext ==
    \/ FetchDocument
    \/ UploadDocument
    \/ QueryTask
    \/ Sleep
    \/ LoopEnds

SpecPipe == PipeInit /\ [][PipeNext]_vars

\* the answer leaves the task unfinished: HTTP 200 and a status that is
\* neither succeeded nor failed
Unfinished(response) ==
    response.code = 200 /\ response.status \notin {"succeeded", "failed"}

\* C16: a document is polled only if its upload was answered with 202, and
\* at most 15 times; every answer but the last one polling got was a 200
\* with an unfinished status, and the loop turned to the next document
\* either on the first answer that was no 200 or had the status succeeded or
\* failed, or after 15 unfinished answers.
C16_PollingBounded ==
    /\ pipeline.polls <= 15 /\ pipeline.prev.polls <= 15
    /\ pipeline.polls > 0 => pipeline.upload = 202 /\ Unfinished(pipeline.last)
    /\ pipeline.pc = "sleep" => pipeline.polls = pipeline.i + 1
    /\ pipeline.pc = "poll" => pipeline.polls = pipeline.i
    /\ pipeline.prev.upload # 202 => pipeline.prev.polls = 0
    /\ pipeline.prev.polls > 0
       => \/ ~Unfinished(pipeline.prev.last)
          \/ pipeline.prev.polls = 15

\* the first document was given up after 15 unfinished answers and the loop is
\* at the second one
C16_Witness ==
    /\ pipeline.doc = 2 /\ pipeline.pc = "fetch"
    /\ pipeline.prev.upload = 202 /\ pipeline.prev.polls = 15
    /\ pipeline.prev.last = [code |-> 200, status |-> "canceled"]

-----------------------------------------------------------------------------
(* The cache and failed loads *)

Failed(load) == load.how \in {"missing", "error"}

\* C17: the cache holds nothing but documents a load of this run opened and
\* parsed; a load is answered from the cache only after such a load of the
\* same file, so that a file whose load failed is opened again by every later
\* load until one succeeds; a load that finds no entry fails without touching
\* the cache if the file is absent, and caches what it parsed otherwise.
C17_OnlyParsedDocumentsCached ==
    /\ [](/\ \A key \in DOMAIN schema_cache :
               /\ \E n \in 1..Len(loads) :
                     loads[n].key = key /\ loads[n].how = "parsed"
               /\ key \in DOMAIN fs /\ schema_cache[key] = fs[key].doc
          /\ \A n \in 1..Len(loads) :
               /\ loads[n].how = "hit"
                  => \E m \in 1..(n - 1) :
                        loads[m].key = loads[n].key /\ loads[m].how = "parsed"
               /\ Failed(loads[n])
                  => \A m \in 1..(n - 1) :
                        loads[m].key = loads[n].key => Failed(loads[m]))
    /\ [][Len(loads') = Len(loads) + 1 /\ Len(loads) > 0
          => LET load == loads'[Len(loads')]
             IN  /\ load.how = "hit" <=> load.key \in DOMAIN schema_cache
                 /\ load.how = "missing"
                    <=> load.key \notin DOMAIN schema_cache \cup DOMAIN fs
                 /\ Failed(load) => schema_cache' = schema_cache
                 /\ load.how = "parsed"
                    => /\ load.key \in DOMAIN fs \ DOMAIN schema_cache
                       /\ DOMAIN schema_cache'
                             = DOMAIN schema_cache \cup {load.key}]_vars

\* a file was missing when first referred to, was written, and the next
\* reference to it loaded it into the cache
C17_Witness ==
    \E m, n \in 1..Len(loads) :
        /\ m < n /\ loads[m].key = loads[n].key
        /\ loads[m].how = "missing" /\ loads[n].how = "parsed"
        /\ loads[n].key \in DOMAIN schema_cache

-----------------------------------------------------------------------------
(* One construct per fragment *)

\* the first of the keys, in the order given, that the fragment has
RECURSIVE FirstOf(_, _)
FirstOf(schema, keys) ==
    IF keys = <<>> THEN ""
    ELSE IF Has(schema, keys[1]) THEN keys[1]
    ELSE FirstOf(schema, Tail(keys))

Construct(schema) == FirstOf(schema, <<"$ref", "allOf", "anyOf", "oneOf">>)

\* the positions a walker call can be at, by the construct it handles
PcOf(f) ==
    IF Construct(f.schema) = "$ref" THEN {"start", "ref_ret", "done"}
    ELSE IF Construct(f.schema) # "" THEN {"start", "comb"}
    ELSE IF ObjectLike(f.schema) THEN {"start", "props", "items_ret", "prop_ret"}
    ELSE {"start", "done"}

\* C18: every walker call handles the one construct that comes first in the
\* order $ref, allOf, anyOf, oneOf, object, array, a combinator call going
\* through the branches of that first key only; so a root with $ref yields
\* the records of the fragment the reference resolved to and nothing of its
\* own properties or combinators, and a root with combinators yields the
\* records of the branches of the first key and nothing of its own
\* properties or of the other keys.
C18_OneConstructPerFragment ==
    /\ \A n \in 1..Len(stack) :
          (stack[n].fn = "parse" /\ IsDict(stack[n].schema))
          => /\ stack[n].pc \in PcOf(stack[n])
             /\ stack[n].pc = "comb" => stack[n].key = Construct(stack[n].schema)
    /\ (/\ status = "done" /\ RootLoaded /\ IsDict(RootDoc)
        /\ Construct(RootDoc) \in {"allOf", "anyOf", "oneOf"}
        /\ \A n \in 1..Len(Get(RootDoc, Construct(RootDoc)).el) :
              FlatBranch(Get(RootDoc, Construct(RootDoc)).el[n]))
       => PathNames(properties)
             = BranchesRecords(Get(RootDoc, Construct(RootDoc)).el,
                               Marker(Construct(RootDoc)))
    /\ (/\ status = "done" /\ RootLoaded /\ IsDict(RootDoc)
        /\ Construct(RootDoc) = "$ref"
        /\ InternalToken(Get(RootDoc, "$ref"))
        /\ Walk(RootDoc, InternalParts(Get(RootDoc, "$ref")), <<>>).found
        /\ FlatBranch(Walk(RootDoc, InternalParts(Get(RootDoc, "$ref")),
                           <<>>).val))
       => PathNames(properties)
             = BranchRecords(Walk(RootDoc, InternalParts(Get(RootDoc, "$ref")),
                                  <<>>).val, "")

\* the three runs on fragments with more than one construct have ended: here
\* the one with all three combinator keys, with the allOf branch alone walked
C18_Witness ==
    /\ status = "done" /\ RootLoaded /\ RootDoc = DocSeveral
    /\ PathNames(properties) = << <<"/", "l">> >>

-----------------------------------------------------------------------------
(* What the walker does not descend into *)

Combinators == {"allOf", "anyOf", "oneOf"}

\* a property schema with a combinator and nothing the walker or the type
\* string looks at before it
CombinatorOnly(p) ==
    /\ IsDict(p)
    /\ \E k \in Combinators : Has(p, k)
    /\ \A k \in {"type", "properties", "$ref", "enum"} : ~Has(p, k)

Primitive(p) ==
    IsDict(p) /\ Has(p, "type") /\ Get(p, "type") \in {Str("string"), Str("integer")}
              /\ \A k \in Combinators \cup {"properties", "$ref"} : ~Has(p, k)

\* type array, items a reference and nothing else
ArrayOfRef(p) ==
    /\ IsDict(p) /\ Has(p, "type") /\ Get(p, "type") = Str("array")
    /\ \A k \in Combinators \cup {"properties", "$ref"} : ~Has(p, k)
    /\ Has(p, "items") /\ IsDict(Get(p, "items"))
    /\ KeysOf(Get(p, "items")) = <<"$ref">>

\* an object with declared properties and neither reference nor combinator
PlainObject(v) ==
    /\ IsDict(v) /\ Has(v, "properties")
    /\ \A k \in Combinators \cup {"$ref"} : ~Has(v, k)

PropsOf(v) == Get(v, "properties").kv

\* C19: the walker never calls itself for a property that has a combinator
\* only, nor for the items of a bare array unless they are object-shaped; an
\* object whose properties are primitives or combinator-only yields one
\* record per property, the combinator-only ones with the combinator's name
\* as type; a root array of references yields no record and loads nothing,
\* whereas an array property of references has its target loaded.
C19_NoDescentIntoCombinatorOnly ==
    /\ \A n \in 1..(Len(stack) - 1) :
          (stack[n].fn = "parse" /\ PlainObject(stack[n].schema)
           /\ stack[n].pc = "props")
          => ~CombinatorOnly(PropsOf(stack[n].schema)[stack[n].i - 1][2])
    /\ \A n \in 1..(Len(stack) - 1) :
          (stack[n].fn = "parse" /\ IsDict(stack[n].schema))
          => ~ArrayOfRef(stack[n].schema)
    /\ (/\ status = "done" /\ RootLoaded /\ PlainObject(RootDoc)
        /\ \A n \in 1..Len(PropsOf(RootDoc)) :
              \/ Primitive(PropsOf(RootDoc)[n][2])
              \/ CombinatorOnly(PropsOf(RootDoc)[n][2]))
       => /\ PathNames(properties)
                = [n \in 1..Len(PropsOf(RootDoc)) |->
                      <<"/", PropsOf(RootDoc)[n][1]>>]
          /\ \A n \in 1..Len(PropsOf(RootDoc)) :
                CombinatorOnly(PropsOf(RootDoc)[n][2])
                => /\ properties[n].data_type \in Combinators
                   /\ Has(PropsOf(RootDoc)[n][2], properties[n].data_type)
    /\ (status = "done" /\ RootLoaded /\ ArrayOfRef(RootDoc))
       => properties = <<>> /\ Len(loads) = 1
    /\ (/\ status = "done" /\ RootLoaded /\ PlainObject(RootDoc)
        /\ Len(PropsOf(RootDoc)) = 1 /\ ArrayOfRef(PropsOf(RootDoc)[1][2]))
       => /\ Len(loads) = 2
          /\ Len(properties) > 1
          /\ properties[2].path = "/" \o PropsOf(RootDoc)[1][1] \o "[]"

\* the run on the object with two combinator-only properties has ended with
\* one record for each property and none for the property inside a branch
C19_Witness ==
    /\ status = "done" /\ RootLoaded /\ RootDoc = DocOnlyComb
    /\ PathNames(properties) = << <<"/", "c">>, <<"/", "d">>, <<"/", "z">> >>
    /\ properties[1].data_type = "anyOf"
    /\ properties[2].data_type = "oneOf"

====
